---- MODULE Spec2Model ----
(***************************************************************************)
(* fare_watch.py: one run of main() polls the fare API, validates each     *)
(* candidate with a live-price lookup, suppresses deals alerted in the     *)
(* last 48 hours and e-mails the new ones.  The model follows main() line  *)
(* by line; a scheduler starts one run after the other.                    *)
(*                                                                         *)
(* Money is counted in cents, time in whole seconds since the Unix epoch.  *)
(***************************************************************************)
EXTENDS Integers, Sequences, FiniteSets, TLC

VARIABLES
    env,        \* the process environment: name -> value (absent name = unset)
    file,       \* state.json on disk
    clock,      \* the last value time.time() returned (wall clock, not decreasing)
    run,        \* number of the current run (or evaluation, under SpecEval)
    pc,         \* position of the run in main()
    exitCode,   \* exit status once pc = "exited"
    cause,      \* what ended the run abnormally ("none" otherwise)
    net,        \* kinds of network call made so far in this run
    insp,       \* main.insp: the search result
    state,      \* main.state: the in-memory ledger (NotLoaded before load_state)
    alerts,     \* main.alerts: the rendered alerts of this run
    checked,    \* main.checked
    errors,     \* main.errors
    idx,        \* position of the for loop in insp[:max_candidates]
    sent,       \* messages handed to SMTP in this run (each a list of alerts)
    writes,     \* number of writes of state.json in this run
    alertLog,   \* history: for each element of alerts, its key, position and times
    ev,         \* history: what the last loop iteration did
    prev,       \* history: fingerprint -> time recorded, of alerts e-mailed by earlier runs
    snap        \* history: start time and final ledger of the earlier evaluation

vars == <<env, file, clock, run, pc, exitCode, cause, net, insp, state, alerts,
          checked, errors, idx, sent, writes, alertLog, ev, prev, snap>>

----------------------------------------------------------------------------
(* Bounds of the model *)

MaxInsp == 3        \* longest search result
MaxRuns == 2        \* runs the scheduler starts

(* Configuration read at the top of main() *)

origin == "BER"
max_price == 80
max_candidates == 2

SuppressionWindow == 48 * 3600

Min(a, b) == IF a <= b THEN a ELSE b

\* Instants time.time() can return: near the epoch, a reference instant and the
\* instants around the end of its suppression window.
TimePoints ==
    {100, 1000000, 1000000 + SuppressionWindow - 1,
     1000000 + SuppressionWindow, 1000000 + SuppressionWindow + 1}

----------------------------------------------------------------------------
(* Environment *)

None == "<None>"

ApiEnv == <<"AMADEUS_CLIENT_ID", "AMADEUS_CLIENT_SECRET">>
SmtpEnv == <<"SMTP_HOST", "SMTP_PORT", "SMTP_USER", "SMTP_PASS", "RECIPIENT_EMAIL">>

Range(s) == {s[i] : i \in DOMAIN s}
RequiredEnv == Range(ApiEnv) \cup Range(SmtpEnv)

os_getenv(name) == IF name \in DOMAIN env THEN env[name] ELSE None

\* Python truthiness of an optional string: None and "" are false.
Truthy(val) == val # None /\ val # ""

\* require_env(name) returns (TRUE) or calls sys.exit(1) (FALSE).
require_env(name) == Truthy(os_getenv(name))

\* All the require_env calls of a function, in order, return.
require_all(names) == \A i \in DOMAIN names : require_env(names[i])

FullEnv == [n \in RequiredEnv |-> "value"]

EnvChoices ==
    {FullEnv}
    \cup {[n \in RequiredEnv \ {m} |-> "value"] : m \in RequiredEnv}
    \cup {[FullEnv EXCEPT ![m] = ""] : m \in {"AMADEUS_CLIENT_SECRET", "SMTP_PASS"}}

----------------------------------------------------------------------------
(* Ledger and state file *)

EmptyMap == [k \in {} |-> 0]

\* A parsed JSON value, as far as main() looks into it:
\*   "ok"              {"alerts": {fingerprint: number}}
\*   "not_dict"        a list, string, number or null
\*   "no_alerts"       a dict without the key "alerts"
\*   "alerts_not_dict" {"alerts": <list, string, number or null>}
\* `bad` holds the fingerprints of an "ok" value whose stored value is not a
\* number (a string, a list, null).
Shapes == {"ok", "not_dict", "no_alerts", "alerts_not_dict"}

EmptyState == [shape |-> "ok", alerts |-> EmptyMap, bad |-> {}]
NotLoaded == [shape |-> "unbound", alerts |-> EmptyMap, bad |-> {}]

NoFile == [exists |-> FALSE, parses |-> FALSE, value |-> EmptyState]

load_state(f) ==
    IF f.exists
    THEN IF f.parses THEN f.value ELSE EmptyState
    ELSE EmptyState

\* The file save_state(st) leaves: json.dumps of the whole object.
save_state(st) == [exists |-> TRUE, parses |-> TRUE, value |-> st]

----------------------------------------------------------------------------
(* Candidates, live prices and the values computed from them *)

\* A record of the search result; a key that is absent, null or "" is "".
Complete == [destination |-> "BCN", departureDate |-> "2025-09-01", returnDate |-> "2025-09-08"]

InspRecords ==
    {Complete,
     [Complete EXCEPT !.destination = "LIS"],
     [Complete EXCEPT !.destination = ""],
     [Complete EXCEPT !.departureDate = ""],
     [Complete EXCEPT !.returnDate = ""]}

InspChoices == UNION {[1..n -> InspRecords] : n \in 0..MaxInsp}

\* What offers() gives for one candidate: a RequestException, an empty list,
\* an offer without a readable grandTotal, or an offer with a price in cents.
PriceCents == {7940, 7999, 8000, 8001}

OfferResponses ==
    {[kind |-> k, cents |-> 0] : k \in {"error", "empty", "unparsable"}}
    \cup {[kind |-> "price", cents |-> c] : c \in PriceCents}

\* The field check without the return date.
HasFields_NoReturn(it) == Truthy(it.destination) /\ Truthy(it.departureDate)

\* `dest and dep and ret`
HasFields(it) ==
    Truthy(it.destination) /\ Truthy(it.departureDate) /\ Truthy(it.returnDate)

\* The cap taken as exclusive.
WithinCap_Strict(cents) == cents < max_price * 100

\* `live_total <= max_price`
WithinCap(cents) == cents <= max_price * 100

\* int(live_total): the fraction is dropped.
IntPart(cents) == cents \div 100

\* f"{live_total:.0f}": nearest integer, ties to even.
Format0f(cents) ==
    LET q == cents \div 100
        r == cents % 100
    IN  IF r < 50 THEN q
        ELSE IF r > 50 THEN q + 1
        ELSE IF q % 2 = 0 THEN q ELSE q + 1

\* The key built from the price as the alert prints it (rounded).
Fingerprint_Rounded(it, cents) ==
    origin \o "-" \o it.destination \o "-" \o it.departureDate \o "-"
        \o it.returnDate \o "-" \o ToString(Format0f(cents))

\* key = f"{origin}-{dest}-{dep}-{ret}-{int(live_total)}"
Fingerprint(it, cents) ==
    origin \o "-" \o it.destination \o "-" \o it.departureDate \o "-"
        \o it.returnDate \o "-" \o ToString(IntPart(cents))

Html(it, cents) ==
    "<p>" \o origin \o " <-> " \o it.destination \o " Dates: " \o it.departureDate
        \o " -> " \o it.returnDate \o " Price: " \o ToString(Format0f(cents)) \o " EUR</p>"

\* state["alerts"].get(key, 0) followed by `time.time() - last`:
\*   "raise"  state["alerts"] or .get raises (TypeError, KeyError, AttributeError)
\*   "nan"    the stored value is not a number: the subtraction raises TypeError
\*   "num"    a number, the stored one or the default 0
ledger_get(st, key) ==
    IF st.shape # "ok"
    THEN [res |-> "raise", last |-> 0, had |-> FALSE]
    ELSE IF key \in DOMAIN st.alerts
    THEN [res |-> IF key \in st.bad THEN "nan" ELSE "num",
          last |-> st.alerts[key], had |-> TRUE]
    ELSE [res |-> "num", last |-> 0, had |-> FALSE]

\* The assignment of line 198 left out: the ledger keeps what it had.
ledger_set_Forgotten(st, key, now) == st

\* The write that also drops every other entry.
ledger_set_Compacting(st, key, now) ==
    [st EXCEPT !.alerts = [k \in {key} |-> now], !.bad = @ \ {key}]

\* state["alerts"][key] = time.time()
ledger_set(st, key, now) ==
    [st EXCEPT !.alerts =
            [k \in DOMAIN st.alerts \cup {key} |-> IF k = key THEN now ELSE st.alerts[k]],
        !.bad = @ \ {key}]

\* The window taken in milliseconds while the clock counts seconds.
Suppressed_Millis(now, last) == now - last < SuppressionWindow * 1000

\* `time.time() - last < 48 * 3600`
Suppressed(now, last) == now - last < SuppressionWindow

NoResp == [kind |-> "none", cents |-> 0]

NoEv ==
    [pos |-> 0, outcome |-> "none", resp |-> NoResp, key |-> "", had |-> FALSE,
     last |-> 0, t1 |-> 0, t2 |-> 0]

\* The loop body with an unreadable grandTotal taken as the price 0 and an
\* incomplete record looked up like any other.
Iteration_NoSkips(it, resp, t1, t2) ==
    IF resp.kind = "error" THEN [NoEv EXCEPT !.outcome = "offers_failed", !.resp = resp]
    ELSE IF resp.kind = "empty" THEN [NoEv EXCEPT !.outcome = "no_offers", !.resp = resp]
    ELSE IF ~WithinCap(resp.cents)
    THEN [NoEv EXCEPT !.outcome = "over_cap", !.resp = resp]
    ELSE
        LET key == Fingerprint(it, resp.cents)
            got == ledger_get(state, key)
            e == [NoEv EXCEPT !.key = key, !.resp = resp, !.had = got.had,
                              !.last = got.last]
        IN  IF got.res = "raise" THEN [e EXCEPT !.outcome = "raised"]
            ELSE IF got.res = "nan" THEN [e EXCEPT !.outcome = "raised", !.t1 = t1]
            ELSE IF Suppressed(t1, got.last)
            THEN [e EXCEPT !.outcome = "suppressed", !.t1 = t1]
            ELSE [e EXCEPT !.outcome = "alerted", !.t1 = t1, !.t2 = t2]

\* One pass through the body of the for loop for the record `it`, when offers()
\* answers `resp` and the clock reads t1 (line 188) and t2 (line 198).
Iteration(it, resp, t1, t2) ==
    IF ~HasFields(it) THEN [NoEv EXCEPT !.outcome = "missing_field"]
    ELSE IF resp.kind = "error" THEN [NoEv EXCEPT !.outcome = "offers_failed", !.resp = resp]
    ELSE IF resp.kind = "empty" THEN [NoEv EXCEPT !.outcome = "no_offers", !.resp = resp]
    ELSE IF resp.kind = "unparsable" THEN [NoEv EXCEPT !.outcome = "unparsable", !.resp = resp]
    ELSE IF ~WithinCap(resp.cents)
    THEN [NoEv EXCEPT !.outcome = "over_cap", !.resp = resp]
    ELSE
        LET key == Fingerprint(it, resp.cents)
            got == ledger_get(state, key)
            e == [NoEv EXCEPT !.key = key, !.resp = resp, !.had = got.had,
                              !.last = got.last]
        IN  IF got.res = "raise" THEN [e EXCEPT !.outcome = "raised"]
            ELSE IF got.res = "nan" THEN [e EXCEPT !.outcome = "raised", !.t1 = t1]
            ELSE IF Suppressed(t1, got.last)
            THEN [e EXCEPT !.outcome = "suppressed", !.t1 = t1]
            ELSE [e EXCEPT !.outcome = "alerted", !.t1 = t1, !.t2 = t2]

\* The newest alert put first.
add_alert_Front(al, html) == <<html>> \o al

\* alerts.append(html)
add_alert(al, html) == Append(al, html)

\* The whole suggestion list, uncapped.
Slice_All == insp

\* insp[:max_candidates]
Slice == SubSeq(insp, 1, Min(max_candidates, Len(insp)))

----------------------------------------------------------------------------
(* Initial state: a fresh process, with whatever the deployment left in the
   environment and in state.json *)

\* The fingerprint of the complete BCN candidate at 79 euros.
KeyBCN79 == Fingerprint(Complete, 7940)

FileChoices ==
    {NoFile,
     [exists |-> TRUE, parses |-> FALSE, value |-> EmptyState]}
    \cup {[exists |-> TRUE, parses |-> TRUE,
           value |-> [shape |-> sh, alerts |-> EmptyMap, bad |-> {}]] : sh \in Shapes}
    \cup {[exists |-> TRUE, parses |-> TRUE,
           value |-> [shape |-> "ok", alerts |-> [k \in {KeyBCN79} |-> 1000000],
                      bad |-> b]] : b \in {{}, {KeyBCN79}}}

NoSnap == [start |-> 0, ledger |-> NotLoaded, resps |-> <<>>]

Max(S) == CHOOSE m \in S : \A x \in S : x <= m

\* `old` overridden by the fingerprints of `log`, each with the last time
\* recorded for it.
Recorded(old, log) ==
    LET keys == {log[i].key : i \in DOMAIN log}
    IN  [k \in DOMAIN old \cup keys |->
            IF k \in keys
            THEN Max({log[i].t2 : i \in {j \in DOMAIN log : log[j].key = k}})
            ELSE old[k]]

\* The locals of main() before its first statement.
Fresh ==
    /\ pc = "start"
    /\ exitCode = 0
    /\ cause = "none"
    /\ net = {}
    /\ insp = <<>>
    /\ state = NotLoaded
    /\ alerts = <<>>
    /\ checked = 0
    /\ errors = 0
    /\ idx = 0
    /\ sent = <<>>
    /\ writes = 0
    /\ alertLog = <<>>
    /\ ev = NoEv

\* One thing wrong with the deployment at a time: the environment or state.json.
Init ==
    /\ \/ env \in EnvChoices /\ file = NoFile
       \/ env = FullEnv /\ file \in FileChoices
    /\ clock = 0
    /\ run = 1
    /\ prev = EmptyMap
    /\ snap = NoSnap
    /\ Fresh

----------------------------------------------------------------------------
(* The steps of main() *)

\* sys.exit(1), or an exception nothing catches (traceback, exit status 1).
Die(why) ==
    /\ pc' = "exited"
    /\ exitCode' = 1
    /\ cause' = why

\* get_token() that reports a failed exchange and returns without a token.
get_token_NotFatal ==
    /\ pc = "start"
    /\ IF ~require_all(ApiEnv)
       THEN Die("missing_env") /\ UNCHANGED net
       ELSE /\ net' = net \cup {"token"}
            /\ \E ok \in BOOLEAN :
                 /\ pc' = "search"
                 /\ cause' = IF ok THEN cause ELSE "token"
                 /\ UNCHANGED exitCode
    /\ UNCHANGED <<env, file, clock, run, insp, state, alerts, checked, errors, idx,
                   sent, writes, alertLog, ev, prev, snap>>

\* token = get_token()
get_token ==
    /\ pc = "start"
    /\ IF ~require_all(ApiEnv)
       THEN Die("missing_env") /\ UNCHANGED net
       ELSE /\ net' = net \cup {"token"}
            /\ \E ok \in BOOLEAN :
                 IF ok
                 THEN pc' = "search" /\ UNCHANGED <<exitCode, cause>>
                 ELSE Die("token")
    /\ UNCHANGED <<env, file, clock, run, insp, state, alerts, checked, errors, idx,
                   sent, writes, alertLog, ev, prev, snap>>

\* insp = inspiration(...): raise_for_status() is not caught by main().
inspiration ==
    /\ pc = "search"
    /\ net' = net \cup {"search"}
    /\ \/ Die("search") /\ UNCHANGED insp
       \/ /\ insp' \in InspChoices
          /\ pc' = "load"
          /\ UNCHANGED <<exitCode, cause>>
    /\ UNCHANGED <<env, file, clock, run, state, alerts, checked, errors, idx,
                   sent, writes, alertLog, ev, prev, snap>>

\* state = load_state(); alerts = []; checked = 0; errors = 0
load ==
    /\ pc = "load"
    /\ state' = load_state(file)
    /\ alerts' = <<>>
    /\ checked' = 0
    /\ errors' = 0
    /\ idx' = 1
    /\ pc' = "loop"
    /\ UNCHANGED <<env, file, clock, run, exitCode, cause, net, insp, sent, writes,
                   alertLog, ev, prev, snap>>

\* One iteration of `for it in insp[:max_candidates]`.
LoopCore ==
    /\ pc = "loop"
    /\ idx <= Len(Slice)
    /\ \E resp \in OfferResponses, t1 \in TimePoints, t2 \in TimePoints :
         /\ clock <= t1
         /\ t1 <= t2
         /\ LET it == Slice[idx]
                e == [Iteration(it, resp, t1, t2) EXCEPT !.pos = idx]
                o == e.outcome
            IN  /\ ev' = e
                /\ net' = IF o = "missing_field" THEN net ELSE net \cup {"offers"}
                /\ errors' = IF o = "offers_failed" THEN errors + 1 ELSE errors
                /\ checked' = IF o \in {"missing_field", "offers_failed"}
                              THEN checked ELSE checked + 1
                /\ clock' = IF o = "alerted" THEN t2
                            ELSE IF e.t1 # 0 THEN t1 ELSE clock
                /\ IF o = "alerted"
                   THEN /\ alerts' = add_alert(alerts, Html(it, resp.cents))
                        /\ state' = ledger_set(state, e.key, t2)
                        /\ alertLog' = Append(alertLog,
                               [key |-> e.key, pos |-> idx, t1 |-> t1, t2 |-> t2])
                   ELSE UNCHANGED <<alerts, state, alertLog>>
                /\ IF o = "raised"
                   THEN Die("state") /\ UNCHANGED idx
                   ELSE idx' = idx + 1 /\ UNCHANGED <<pc, exitCode, cause>>
    /\ UNCHANGED <<env, file, run, insp, sent, writes, prev>>

loop_body == LoopCore /\ UNCHANGED snap

\* `if alerts:` is false: main() returns.
finish ==
    /\ pc = "loop"
    /\ idx > Len(Slice)
    /\ alerts = <<>>
    /\ pc' = "exited"
    /\ UNCHANGED <<env, file, clock, run, exitCode, cause, net, insp, state, alerts,
                   checked, errors, idx, sent, writes, alertLog, ev, prev, snap>>

\* send_email that mails the first alert only.
send_email_FirstOnly ==
    /\ pc = "loop"
    /\ idx > Len(Slice)
    /\ alerts # <<>>
    /\ IF ~require_all(SmtpEnv)
       THEN Die("missing_env") /\ UNCHANGED <<net, sent>>
       ELSE /\ net' = net \cup {"smtp"}
            /\ \E ok \in BOOLEAN :
                 IF ok
                 THEN /\ sent' = Append(sent, <<alerts[1]>>)
                      /\ pc' = "exited"
                      /\ UNCHANGED <<exitCode, cause>>
                 ELSE Die("smtp") /\ UNCHANGED sent
    /\ UNCHANGED <<env, file, clock, run, insp, state, alerts, checked, errors, idx,
                   writes, alertLog, ev, prev, snap>>

\* `if alerts:` is true: send_email(subject, body), then main() returns.
\* smtplib's exceptions are not caught.
send_email ==
    /\ pc = "loop"
    /\ idx > Len(Slice)
    /\ alerts # <<>>
    /\ IF ~require_all(SmtpEnv)
       THEN Die("missing_env") /\ UNCHANGED <<net, sent>>
       ELSE /\ net' = net \cup {"smtp"}
            /\ \E ok \in BOOLEAN :
                 IF ok
                 THEN /\ sent' = Append(sent, alerts)
                      /\ pc' = "exited"
                      /\ UNCHANGED <<exitCode, cause>>
                 ELSE Die("smtp") /\ UNCHANGED sent
    /\ UNCHANGED <<env, file, clock, run, insp, state, alerts, checked, errors, idx,
                   writes, alertLog, ev, prev, snap>>

\* The scheduler starts the next run: a new process, the same environment and disk.
next_run ==
    /\ pc = "exited"
    /\ run < MaxRuns
    /\ run' = run + 1
    /\ pc' = "start"
    /\ exitCode' = 0
    /\ cause' = "none"
    /\ net' = {}
    /\ insp' = <<>>
    /\ state' = NotLoaded
    /\ alerts' = <<>>
    /\ checked' = 0
    /\ errors' = 0
    /\ idx' = 0
    /\ sent' = <<>>
    /\ writes' = 0
    /\ alertLog' = <<>>
    /\ ev' = NoEv
    /\ prev' = IF sent # <<>> THEN Recorded(prev, alertLog) ELSE prev
    /\ UNCHANGED <<env, file, clock, snap>>

\* One run of the program.
Next ==
    \/ get_token
    \/ inspiration
    \/ load
    \/ loop_body
    \/ finish
    \/ send_email

Spec == Init /\ [][Next]_vars

\* Consecutive runs of a correctly configured deployment.
InitRuns ==
    /\ env = FullEnv
    /\ file \in {f \in FileChoices : ~f.exists \/ (f.parses /\ f.value.bad = {}
                                                   /\ f.value.alerts # EmptyMap)}
    /\ clock = 0
    /\ run = 1
    /\ prev = EmptyMap
    /\ snap = NoSnap
    /\ Fresh

NextRuns == Next \/ next_run

SpecRuns == InitRuns /\ [][NextRuns]_vars

----------------------------------------------------------------------------
(* The decision loop evaluated twice over one ledger: the second evaluation
   starts from the ledger the first one left in memory and sees the same
   candidates with the same answers of the live-price lookup. *)

WellFormedFiles ==
    {f \in FileChoices : load_state(f).shape = "ok" /\ load_state(f).bad = {}}

InitEval ==
    /\ env = FullEnv
    /\ file \in WellFormedFiles
    /\ clock = 0
    /\ run = 1
    /\ prev = EmptyMap
    /\ snap = NoSnap
    /\ pc = "loop"
    /\ exitCode = 0
    /\ cause = "none"
    /\ net = {"token", "search"}
    /\ insp \in {l \in InspChoices : Len(l) <= max_candidates}
    /\ state = load_state(file)
    /\ alerts = <<>>
    /\ checked = 0
    /\ errors = 0
    /\ idx = 1
    /\ sent = <<>>
    /\ writes = 0
    /\ alertLog = <<>>
    /\ ev = NoEv

\* An iteration of the loop; the second evaluation gets the answers of the first.
eval_body ==
    /\ LoopCore
    /\ run = 2 => ev'.resp = snap.resps[idx]
    /\ snap' = IF run = 1
               THEN [snap EXCEPT !.resps = Append(@, ev'.resp),
                                 !.start = IF @ = 0 THEN ev'.t1 ELSE @]
               ELSE snap

\* The loop is entered again with the ledger as it is.
reevaluate ==
    /\ pc = "loop"
    /\ idx > Len(Slice)
    /\ run = 1
    /\ run' = 2
    /\ alerts' = <<>>
    /\ checked' = 0
    /\ errors' = 0
    /\ idx' = 1
    /\ alertLog' = <<>>
    /\ ev' = NoEv
    /\ prev' = Recorded(EmptyMap, alertLog)
    /\ snap' = [snap EXCEPT !.ledger = state]
    /\ UNCHANGED <<env, file, clock, pc, exitCode, cause, net, insp, state, sent, writes>>

NextEval == eval_body \/ reevaluate

SpecEval == InitEval /\ [][NextEval]_vars

----------------------------------------------------------------------------
(* Properties claimed of the program *)

RunEnded == pc = "exited"

\* C1: a deal e-mailed by one run at T0 is not alerted by a later run that
\* evaluates the same fingerprint less than 48 hours after T0.
C1_NoRepeatAcrossRuns ==
    \A i \in DOMAIN alertLog :
        alertLog[i].key \in DOMAIN prev
            => ~(alertLog[i].t1 - prev[alertLog[i].key] < SuppressionWindow)

\* C2: a run that ends with new alerts has written the whole in-memory ledger
\* to state.json exactly once; a run without new alerts has not written it.
C2_LedgerPersistedOnce ==
    (RunEnded /\ exitCode = 0)
        => IF alerts # <<>>
           THEN writes = 1 /\ file = save_state(state)
           ELSE writes = 0

\* C3: when the e-mail delivery fails, the run is not aborted and the ledger
\* with the entries of this run's alerts is on disk when the run ends.
DeliveryFailed == RunEnded /\ "smtp" \in net /\ sent = <<>>

C3_DeliveryFailureKeepsLedger ==
    DeliveryFailed => (exitCode = 0 /\ file = save_state(state))

\* C4: whatever state.json holds that is not a ledger (no file, no JSON, JSON
\* of another shape), the run never ends abnormally because of it and every
\* candidate is evaluated as with an empty ledger.
NotALedger(f) ==
    \/ ~f.exists
    \/ ~f.parses
    \/ f.value.shape # "ok"
    \/ f.value.bad # {}

C4_BadStateFileIsEmptyLedger ==
    NotALedger(file)
        => /\ cause # "state"
           /\ alertLog = <<>> => ~ev.had

\* C5: with a required configuration value missing, the run ends fatally and
\* no network call is made.
C5_MissingConfigBeforeNetwork ==
    (\E n \in RequiredEnv : ~require_env(n))
        => /\ net = {}
           /\ RunEnded => exitCode = 1

\* C6: a run ends abnormally only for missing configuration or a failed
\* credential exchange.
C6_OnlyConfigAndTokenAreFatal ==
    (RunEnded /\ exitCode # 0) => cause \in {"missing_env", "token"}

\* C7: a failed credential exchange ends the run at once: no search, no
\* live-price lookup, no e-mail, and the ledger, in memory and on disk, is
\* not touched.
C7_TokenFailureStopsRun ==
    cause = "token"
        => /\ RunEnded
           /\ exitCode = 1
           /\ net = {"token"}
           /\ insp = <<>>
           /\ state = NotLoaded
           /\ alerts = <<>>
           /\ sent = <<>>
           /\ writes = 0

C7_Witness == cause = "token" /\ RunEnded /\ net = {"token"}

\* C8 as stated: the second evaluation of the same candidates, with every
\* timestamp less than 48 hours after the first timestamp of the first
\* evaluation, yields no alert and leaves the ledger as the first left it.
C8_SecondEvaluationSilent ==
    (run = 2 /\ (snap.start # 0 => clock - snap.start < SuppressionWindow))
        => (alerts = <<>> /\ state = snap.ledger)

\* C8 amended: in the second evaluation, while every timestamp is less than
\* 48 hours after the times the first evaluation recorded, no candidate the
\* first evaluation alerted is alerted again and the ledger entries of those
\* candidates stay as recorded.
C8_AlertedStaySuppressed ==
    (run = 2 /\ \A k \in DOMAIN prev : clock - prev[k] < SuppressionWindow)
        => /\ \A i \in DOMAIN alertLog : alertLog[i].key \notin DOMAIN prev
           /\ \A k \in DOMAIN prev :
                k \in DOMAIN state.alerts /\ state.alerts[k] = prev[k]

C8_Witness ==
    /\ run = 2
    /\ idx > Len(Slice)
    /\ ev.outcome = "suppressed"
    /\ ev.key \in DOMAIN prev
    /\ ev.t1 > prev[ev.key]
    /\ \A k \in DOMAIN prev : clock - prev[k] < SuppressionWindow

\* C9: within one run no fingerprint is alerted more than once, whatever
\* the clock reads while the loop runs.
C9_OneAlertPerFingerprint ==
    \A i, j \in DOMAIN alertLog :
        i # j => alertLog[i].key # alertLog[j].key

\* C10: a candidate whose fingerprint the ledger holds with time T, evaluated
\* at T + 48 hours + 1 second with a price within the cap, is alerted and its
\* ledger entry is overwritten with the time of the alert.
C10_SuppressionExpires ==
    (ev.had /\ ev.key \notin state.bad /\ ev.t1 = ev.last + SuppressionWindow + 1)
        => /\ ev.outcome = "alerted"
           /\ alerts # <<>>
           /\ alerts[Len(alerts)] = Html(Slice[ev.pos], ev.resp.cents)
           /\ alertLog[Len(alertLog)].pos = ev.pos
           /\ ev.key \in DOMAIN state.alerts
           /\ state.alerts[ev.key] = ev.t2
           /\ ev.t2 > ev.last + SuppressionWindow

C10_Witness ==
    /\ ev.had
    /\ ev.t1 = ev.last + SuppressionWindow + 1
    /\ ev.outcome = "alerted"
    /\ state.alerts[ev.key] = ev.t2

\* An iteration of the loop is taken from this state to the next.
Iterates == pc = "loop" /\ ev'.pos = idx

\* C11: a complete candidate whose fingerprint the window test of line 188
\* does not suppress is alerted and recorded when its live price equals the
\* cap (the cap itself never rejects it); at one cent above the cap it adds
\* no alert and the ledger stays as it is.
C11_CapBoundary ==
    [][(Iterates /\ ev'.resp.kind = "price")
        => /\ ev'.resp.cents = max_price * 100
              => ev'.outcome \in {"alerted", "suppressed", "raised"}
           /\ ( /\ ev'.resp.cents = max_price * 100
                /\ ev'.t1 # 0
                /\ ev'.key \notin state.bad
                /\ ev'.t1 - ev'.last >= SuppressionWindow )
              => /\ alerts' = Append(alerts, Html(Slice[idx], ev'.resp.cents))
                 /\ ev'.key \in DOMAIN state'.alerts
                 /\ state'.alerts[ev'.key] = ev'.t2
           /\ ev'.resp.cents = max_price * 100 + 1
              => /\ alerts' = alerts
                 /\ state' = state
                 /\ ev'.outcome = "over_cap"]_vars

C11_Witness ==
    /\ Len(alerts) = 1
    /\ alerts[1] = Html(Complete, max_price * 100)
    /\ alertLog[1].pos = 1
    /\ ev.pos = 2
    /\ ev.resp = [kind |-> "price", cents |-> max_price * 100 + 1]
    /\ ev.outcome = "over_cap"

\* Whole euros of a price: the largest n with n euros <= price.
TruncEuros(cents) == CHOOSE n \in 0..200 : n * 100 <= cents /\ cents < (n + 1) * 100

PriceSamples == PriceCents \cup {0, 99, 100, 7900, 7950, 10000}

SameFingerprintIffSameEuros ==
    \A it \in InspRecords : \A c1, c2 \in PriceSamples :
        (Fingerprint(it, c1) = Fingerprint(it, c2)) <=> (TruncEuros(c1) = TruncEuros(c2))

\* A fingerprint of the same itinerary at another whole-euro price is in the
\* ledger and inside its 48-hour window at time t.
OldPriceSuppressed(it, cents, t) ==
    \E c \in PriceSamples :
        /\ TruncEuros(c) # TruncEuros(cents)
        /\ Fingerprint(it, c) \in DOMAIN state.alerts
        /\ Fingerprint(it, c) \notin state.bad
        /\ 0 <= t - state.alerts[Fingerprint(it, c)]
        /\ t - state.alerts[Fingerprint(it, c)] < SuppressionWindow

\* C12: for one itinerary, two prices give the same fingerprint exactly when
\* they have the same whole euros (truncated, not rounded); so a candidate
\* whose fingerprint is not in the ledger is alerted at once although the
\* fingerprint of the same itinerary at another whole-euro price is inside
\* its suppression window.
C12_FingerprintByWholeEuros ==
    /\ SameFingerprintIffSameEuros
    /\ ( /\ ev.outcome \in {"alerted", "suppressed"}
         /\ ev.key = Fingerprint(Slice[ev.pos], ev.resp.cents)
         /\ ~ev.had
         /\ OldPriceSuppressed(Slice[ev.pos], ev.resp.cents, ev.t1) )
       => /\ ev.outcome = "alerted"
          /\ state.alerts[ev.key] = ev.t2

C12_Witness ==
    /\ ev.outcome = "alerted"
    /\ ev.resp.cents = 8000
    /\ ~ev.had
    /\ OldPriceSuppressed(Slice[ev.pos], ev.resp.cents, ev.t1)
    /\ KeyBCN79 \in DOMAIN state.alerts
    /\ state.alerts[KeyBCN79] = ev.t1

\* The loop has run to its end (no exception ended the run inside it).
LoopDone == idx > Len(Slice) /\ pc \in {"loop", "exited"} /\ cause # "state"

\* C13: send_email is reached at most once in a run: never without a new
\* alert, and a run that finishes the loop with alerts and ends normally has
\* handed SMTP exactly one message, holding every alert of the run in order.
C13_OneBatchedMessage ==
    /\ Len(sent) <= 1
    /\ "smtp" \in net => (RunEnded /\ alerts # <<>> /\ LoopDone)
    /\ sent # <<>> => sent[1] = alerts
    /\ (RunEnded /\ LoopDone /\ alerts = <<>>)
          => (sent = <<>> /\ "smtp" \notin net /\ exitCode = 0)
    /\ (RunEnded /\ LoopDone /\ alerts # <<>>)
          => \/ Len(sent) = 1 /\ exitCode = 0
             \/ sent = <<>> /\ cause \in {"missing_env", "smtp"}

C13_Witness ==
    /\ RunEnded
    /\ exitCode = 0
    /\ Len(alerts) = 2
    /\ alerts[1] # alerts[2]
    /\ sent = <<alerts>>

\* The iteration leaves alerts and ledger alone and the loop goes on.
SkipsCandidate ==
    /\ alerts' = alerts
    /\ alertLog' = alertLog
    /\ state' = state
    /\ pc' = "loop"
    /\ idx' = idx + 1
    /\ exitCode' = exitCode
    /\ cause' = cause

\* C14: a candidate whose live-price lookup fails, returns no offer or
\* returns an unreadable price adds no alert, leaves the ledger as it is,
\* raises nothing, and the loop moves to the next candidate.
C14_NoLivePriceNoAlert ==
    [][(Iterates /\ ev'.resp.kind \in {"error", "empty", "unparsable"})
        => SkipsCandidate]_vars

C14_Witness ==
    /\ errors = 1
    /\ checked = 1
    /\ ev.pos = 2
    /\ ev.outcome = "alerted"
    /\ alertLog = <<[key |-> ev.key, pos |-> 2, t1 |-> ev.t1, t2 |-> ev.t2]>>

\* A record without destination, departure date or return date.
Incomplete(it) == it.destination = "" \/ it.departureDate = "" \/ it.returnDate = ""

\* C15: a record missing its destination, departure date or return date
\* never enters the alerts and never changes the ledger (nor is it looked
\* up), whatever the ledger and the other candidates are.
C15_IncompleteRecordSkipped ==
    [][(pc = "loop" /\ idx <= Len(Slice) /\ Incomplete(Slice[idx]))
        => (SkipsCandidate /\ net' = net /\ checked' = checked /\ errors' = errors)]_vars

C15_Witness ==
    /\ Len(Slice) = 2
    /\ Incomplete(Slice[1])
    /\ \E f \in {"destination", "departureDate", "returnDate"} : Slice[1][f] # ""
    /\ ev.pos = 2
    /\ ev.outcome = "alerted"
    /\ alertLog[1].pos = 2
    /\ Len(alerts) = 1

\* C16: a candidate within the cap whose fingerprint is absent from the
\* ledger is alerted whatever the clock reads, also less than 48 hours after
\* the epoch.
C16_AbsentKeyAlwaysAlerted ==
    (ev.outcome \in {"alerted", "suppressed"} /\ ~ev.had) => ev.outcome = "alerted"

\* C17: the ledger changes only when a candidate is alerted: the change is
\* the write of that candidate's fingerprint with the time read at the
\* write; no entry is removed and every other timestamp stays as it was.
C17_LedgerChangesOnlyByAlerting ==
    [][pc = "loop"
        => /\ DOMAIN state.alerts \subseteq DOMAIN state'.alerts
           /\ state' # state
                => /\ alerts' = Append(alerts, Html(Slice[idx], ev'.resp.cents))
                   /\ ev'.outcome = "alerted"
                   /\ ev'.key = Fingerprint(Slice[idx], ev'.resp.cents)
                   /\ DOMAIN state'.alerts = DOMAIN state.alerts \cup {ev'.key}
                   /\ state'.alerts[ev'.key] = ev'.t2
                   /\ \A k \in DOMAIN state.alerts \ {ev'.key} :
                        /\ state'.alerts[k] = state.alerts[k]
                        /\ (k \in state'.bad) = (k \in state.bad)
           /\ alerts' # alerts
                => /\ ev'.key \in DOMAIN state'.alerts
                   /\ state'.alerts[ev'.key] = ev'.t2
                   /\ ev'.key \notin state'.bad]_vars

C17_Witness ==
    /\ Len(alerts) = 1
    /\ ev.outcome = "alerted"
    /\ ev.key # KeyBCN79
    /\ DOMAIN state.alerts = {KeyBCN79, ev.key}
    /\ state.alerts[KeyBCN79] = 1000000
    /\ state.alerts[ev.key] = ev.t2

\* C18: the alerts are the alerted candidates in the order in which the
\* provider returned them: the i-th alert renders the i-th alerted record,
\* and the alerted positions increase.
C18_AlertsInProviderOrder ==
    /\ Len(alerts) = Len(alertLog)
    /\ \A i \in DOMAIN alertLog :
         /\ alertLog[i].pos \in DOMAIN Slice
         /\ \E c \in PriceCents :
              /\ alerts[i] = Html(Slice[alertLog[i].pos], c)
              /\ alertLog[i].key = Fingerprint(Slice[alertLog[i].pos], c)
    /\ \A i, j \in DOMAIN alertLog : i < j => alertLog[i].pos < alertLog[j].pos

C18_Witness ==
    /\ Len(alerts) = 2
    /\ alertLog[1].pos = 1
    /\ alertLog[2].pos = 2
    /\ Slice[1].destination # Slice[2].destination
    /\ \E c \in PriceCents : alerts[1] = Html(Slice[1], c)
    /\ \E c \in PriceCents : alerts[2] = Html(Slice[2], c)

\* C19: at most MAX_CANDIDATES live-price lookups are made in a run, only the
\* first MAX_CANDIDATES records can reach the alerts or the ledger, and every
\* record is processed at most once: the loop position only moves forward
\* and ends after the last capped record.
C19_AtMostMaxCandidates ==
    /\ checked + errors <= Min(max_candidates, Len(insp))
    /\ Len(alerts) <= max_candidates
    /\ \A i \in DOMAIN alertLog : alertLog[i].pos <= max_candidates
    /\ pc = "loop" => (idx \in 1..(Min(max_candidates, Len(insp)) + 1) /\ ev.pos = idx - 1)
    /\ \A k \in DOMAIN state.alerts :
         \/ k \in DOMAIN load_state(file).alerts
         \/ \E i \in 1..Min(max_candidates, Len(insp)), c \in PriceCents :
                k = Fingerprint(insp[i], c)

C19_Witness ==
    /\ RunEnded
    /\ Len(insp) = MaxInsp
    /\ MaxInsp > max_candidates
    /\ HasFields(insp[MaxInsp])
    /\ checked = max_candidates
    /\ Len(alerts) = max_candidates

====
